---- MODULE Spec2Model ----
(***************************************************************************)
(* District-heating network simulation kernel (src/simulation):           *)
(*   main_program.main_program          time-stepping loop                *)
(*   Auxiliary_functions                coupling matrix, soil temperature *)
(*   hydraulic_equ_system               continuity solve + direction      *)
(*                                      correction                        *)
(*   thermal_equ_system                 segment update + topological      *)
(*                                      propagation                       *)
(* Node and pipe indices are 0-based as in the source.  Mass flows are    *)
(* integers (kg/s); temperatures are exact rationals <<num, den>> with    *)
(* NaN == <<0, 0>> for the IEEE result of 0/0.  The root finder           *)
(* scipy.optimize.fsolve is modelled by what it is called for: it returns *)
(* the root of the residual function when that root is unique, and an     *)
(* arbitrary vector of its search range otherwise (no convergence test    *)
(* follows the call in the source).  The pressure equations give every    *)
(* non-reference node one unknown and every pipe one equation; on the     *)
(* networks below they fix the pressures for any pipe flows and leave the *)
(* flows to the continuity equations: the pressures are computed from the *)
(* flows, pipe by pipe, outwards from the reference node.                 *)
(***************************************************************************)
EXTENDS Integers, Sequences, FiniteSets, TLC

VARIABLES
    pc,                    \* position in main_program
    err,                   \* the exception / exit that ended the run ("" if none)
    \* ---- topology sheet (fcns_read.read_grid_setup) ----
    node_kind,             \* [node -> "feeder" | "consumer" | "distrib"]
    sheet_p_ref,           \* nodes whose reference-pressure cell holds "x"
    p_ref,                 \* node.p_ref: sequence of reference nodes found
    line_node_start,       \* line.node_start
    line_node_end,         \* line.node_end
    line_l,                \* line.l (pipe length, a rational)
    \* ---- per hydraulic step inputs (series element cntr_time_hyd) ----
    V_dot_sim,             \* consumers' volumetric flow
    V_dot_feed,            \* feeders' measured volumetric flow
    Q_dot_sim,             \* consumers' heat flow
    temp_flow_feed,        \* feeders' forerun temperature
    temp_soil,             \* var_sim.temp_soil (sequence, one per step)
    \* ---- clock ----
    time_sim, cntr_time_hyd, cntr_therm_1,
    cntr_time_therm_forerun, cntr_time_therm_return,
    \* ---- hydraulic state ----
    matrix_coupl_forerun, matrix_coupl_return,
    m_ext_forerun, m_ext_return,
    m_int_forerun, m_int_return,
    m_ext_forerun_trans, m_ext_return_trans,
    m_int_forerun_trans, m_int_return_trans,
    p_ref_forerun, p_ref_return,            \* given pressures (None if unknown)
    p_forerun, p_return,                    \* node pressures
    input_solver_hydr_forerun, input_solver_hydr_return,   \* start vectors
    \* ---- thermal state ----
    line_t_forerun, line_t_return,          \* segment temperatures per pipe
    node_t_forerun_trans, node_t_return_trans,
    line_calc_forerun, node_calc_forerun,
    line_calc_return, node_calc_return,
    \* ---- history variables (observers, never read by the program) ----
    h

None == -9999
\* a series of a node that has none: temp_flow_feed.append(None)
NoneSeries == <<None, None>>

(***************************************************************************)
(* Bounds of the model.                                                    *)
(***************************************************************************)
MaxFlow == 2          \* external volumetric flows are 0, 100 and 100*MaxFlow
MaxRounds == 3        \* the observers' round / pass counters saturate here

(***************************************************************************)
(* Configuration values (options.py, read through var_sim / var_H2O).      *)
(***************************************************************************)
rho == 10                 \* var_H2O.rho
c_p == 1                  \* var_H2O.c_p
pi == 3                   \* math.pi (rational stand-in)
dia == 2                  \* line.dia
htc == 1                  \* line.htc
n_m == 1                  \* var_sim.n_m, segments per metre
delta_time_hyd == 1       \* var_sim.delta_time_hyd [min]
delta_time_therm == 30    \* var_sim.delta_time_therm [s]
time_sim_start == 0       \* var_sim.time_sim_start [min]
time_sim_end == 1         \* var_sim.time_sim_end [min]
m_dot_start == 1          \* var_sim.m_dot_start, start value of a pipe flow
p_start == 50             \* var_sim.p_start, start value of a node pressure
lambd == 2                \* line.lambd, friction factor
zeta == 0                 \* line.zeta, minor-loss coefficient
g == 10                   \* var_phy.g
Tol == 0                  \* -1e-10 < m < 0 has no integer: m < -1e-10 iff m < 0

(***************************************************************************)
(* Exact rational arithmetic for the float temperatures.                   *)
(***************************************************************************)
Abs(x) == IF x < 0 THEN -x ELSE x

RECURSIVE Gcd(_, _)
Gcd(a, b) == IF b = 0 THEN a ELSE Gcd(b, a % b)

NaN == <<0, 0>>
IsNaN(a) == a[2] = 0

RNorm(n, d) ==
    IF d = 0 THEN NaN
    ELSE LET q == Gcd(Abs(n), Abs(d))
             s == IF d < 0 THEN -1 ELSE 1
         IN <<s * (n \div q), s * (d \div q)>>

R(i) == <<i, 1>>
\* the operands are brought to their least common denominator, and the
\* factors of a product are reduced crosswise, before anything is multiplied
Lcm(a, b) == (a \div Gcd(a, b)) * b
RAdd(a, b) == IF IsNaN(a) \/ IsNaN(b) THEN NaN
              ELSE LET l == Lcm(a[2], b[2])
                   IN RNorm(a[1] * (l \div a[2]) + b[1] * (l \div b[2]), l)
RSub(a, b) == IF IsNaN(a) \/ IsNaN(b) THEN NaN
              ELSE LET l == Lcm(a[2], b[2])
                   IN RNorm(a[1] * (l \div a[2]) - b[1] * (l \div b[2]), l)
RMul(a, b) == IF IsNaN(a) \/ IsNaN(b) THEN NaN
              ELSE LET u == Gcd(Abs(a[1]), b[2])
                       k == Gcd(Abs(b[1]), a[2])
                   IN RNorm((a[1] \div u) * (b[1] \div k), (a[2] \div k) * (b[2] \div u))
\* a / b; 0/0 and NaN operands give NaN (x/0 with x # 0 is never evaluated:
\* every divisor is a sum of non-negative flows and its dividend that sum
\* weighted)
RDiv(a, b) == IF IsNaN(a) \/ IsNaN(b) \/ b[1] = 0 THEN NaN
              ELSE RMul(a, IF b[1] < 0 THEN <<-b[2], -b[1]>> ELSE <<b[2], b[1]>>)
\* a < b; every comparison with NaN is false
RLess(a, b) == /\ ~IsNaN(a) /\ ~IsNaN(b)
               /\ LET l == Lcm(a[2], b[2]) IN a[1] * (l \div a[2]) < b[1] * (l \div b[2])

\* Python sequence indexing: index i >= 0 from the front, i < 0 from the back
PyIndex(s, i) == IF i < 0 THEN s[Len(s) + i + 1] ELSE s[i + 1]

RECURSIVE SumOver(_, _)
SumOver(S, f) ==
    IF S = {} THEN 0
    ELSE LET x == CHOOSE y \in S : TRUE IN f[x] + SumOver(S \ {x}, f)

RECURSIVE RSumOver(_, _)
RSumOver(S, f) ==
    IF S = {} THEN R(0)
    ELSE LET x == CHOOSE y \in S : TRUE IN RAdd(f[x], RSumOver(S \ {x}, f))

Nodes == DOMAIN node_kind
Lines == DOMAIN line_node_start

vars == <<pc, err, node_kind, sheet_p_ref, p_ref, line_node_start, line_node_end,
          line_l, V_dot_sim, V_dot_feed, Q_dot_sim, temp_flow_feed, temp_soil,
          time_sim, cntr_time_hyd, cntr_therm_1,
          cntr_time_therm_forerun, cntr_time_therm_return,
          matrix_coupl_forerun, matrix_coupl_return,
          m_ext_forerun, m_ext_return, m_int_forerun, m_int_return,
          m_ext_forerun_trans, m_ext_return_trans,
          m_int_forerun_trans, m_int_return_trans,
          p_ref_forerun, p_ref_return, p_forerun, p_return,
          input_solver_hydr_forerun, input_solver_hydr_return,
          line_t_forerun, line_t_return,
          node_t_forerun_trans, node_t_return_trans,
          line_calc_forerun, node_calc_forerun,
          line_calc_return, node_calc_return, h>>

topo_vars == <<node_kind, sheet_p_ref, line_node_start, line_node_end, line_l>>
input_vars == <<V_dot_sim, V_dot_feed, Q_dot_sim, temp_flow_feed>>
clock_vars == <<time_sim, cntr_time_hyd, cntr_therm_1,
                cntr_time_therm_forerun, cntr_time_therm_return>>
hyd_vars == <<matrix_coupl_forerun, matrix_coupl_return,
              m_ext_forerun, m_ext_return, m_int_forerun, m_int_return,
              m_ext_forerun_trans, m_ext_return_trans,
              m_int_forerun_trans, m_int_return_trans,
              p_ref_forerun, p_ref_return, p_forerun, p_return,
              input_solver_hydr_forerun, input_solver_hydr_return>>
trans_vars == <<m_ext_forerun_trans, m_ext_return_trans,
                m_int_forerun_trans, m_int_return_trans>>
solver_vars == <<p_ref_forerun, p_ref_return,
                 input_solver_hydr_forerun, input_solver_hydr_return>>
therm_vars == <<line_t_forerun, line_t_return,
                node_t_forerun_trans, node_t_return_trans,
                line_calc_forerun, node_calc_forerun,
                line_calc_return, node_calc_return>>

(***************************************************************************)
(* Topology sheets.  A topology is a list of undirected pipes and, for     *)
(* each, the orientation in which the sheet lists its two end nodes.       *)
(***************************************************************************)
Kinds == {"feeder", "consumer", "distrib"}

\* pipe x joins nodes a and b; fwd: listed as a -> b
OrientedStart(edges, fwd) ==
    [x \in 0..(Len(edges) - 1) |-> IF fwd[x + 1] THEN edges[x + 1][1] ELSE edges[x + 1][2]]
OrientedEnd(edges, fwd) ==
    [x \in 0..(Len(edges) - 1) |-> IF fwd[x + 1] THEN edges[x + 1][2] ELSE edges[x + 1][1]]

\* tree-like delivery networks: the path 0 - 1 - 2
TreeShapes == { [n |-> 3, edges |-> <<<<0, 1>>, <<1, 2>>>>] }
\* the smallest tree: one feeder-to-consumer pipe
PairShapes == { [n |-> 2, edges |-> <<<<0, 1>>>>] }
\* a network the design does not intend: a pipe and a node that no pipe
\* is attached to
PathologicalShapes == { [n |-> 3, edges |-> <<<<0, 1>>>>] }

\* soil_temp(time): a fixed function of the calendar time
soil_temp(time) == R(4 + time)

\* a wrong variant, which the segmentation property must reject: the
\* product is cut off as int() does
Floor(a) == a[1] \div a[2]
\* math.ceil of a rational
Ceil(a) == -((-a[1]) \div a[2])

\* line.n = math.ceil(line.l * var_sim.n_m)
line_n(x) == Ceil(RMul(line_l[x], R(n_m)))
\* line.dx = line.l / line.n
line_dx(x) == RDiv(line_l[x], R(line_n(x)))

\* the length column of the pipe sheet [m]: 1/2, 2, ..
LineLength(x_line) == RNorm(3 * x_line + 1, 2)

\* the series element of a feeder's measured forerun temperature
TempFeedSeries(x_node, k) == R(8 + 4 * x_node + 2 * k)

\* the series elements of a feeder's forerun and return pressure
PressFlowFeedSeries(x_node, k) == R(60)
PressRetFeedSeries(x_node, k) == R(40)
\* node.h_coord: a level network
h_coord(x_node) == 0

VolFlows == {0, 100, 100 * MaxFlow}
\* the series element of a consumer's heat flow [kW]
HeatFlowSeries(x_node, k) == RNorm(1 + 4 * k, 100)

InitShape(shapes) ==
    \E sh \in shapes :
    \E fwd \in [1..Len(sh.edges) -> BOOLEAN] :
    \E kinds \in [0..(sh.n - 1) -> Kinds] :
    \E flagged \in SUBSET (0..(sh.n - 1)) :
        /\ Cardinality(flagged) <= 2
        /\ node_kind = kinds
        /\ sheet_p_ref = flagged
        /\ line_node_start = OrientedStart(sh.edges, fwd)
        /\ line_node_end = OrientedEnd(sh.edges, fwd)
        /\ line_l = [x \in 0..(Len(sh.edges) - 1) |-> LineLength(x)]

InitRest ==
    /\ pc = "read_grid_setup"
    /\ err = ""
    /\ p_ref = <<>>
    /\ V_dot_sim = [x \in Nodes |-> None]
    /\ V_dot_feed = [x \in Nodes |-> None]
    /\ Q_dot_sim = [x \in Nodes |-> NoneSeries]
    /\ temp_flow_feed = [x \in Nodes |-> NoneSeries]
    /\ temp_soil = <<>>
    /\ time_sim = time_sim_start
    /\ cntr_time_hyd = 0
    /\ cntr_therm_1 = 0
    /\ cntr_time_therm_forerun = 0
    /\ cntr_time_therm_return = 0
    /\ matrix_coupl_forerun = [x \in Nodes |-> [y \in Lines |-> 0]]
    /\ matrix_coupl_return = [x \in Nodes |-> [y \in Lines |-> 0]]
    /\ m_ext_forerun = [x \in Nodes |-> None]
    /\ m_ext_return = [x \in Nodes |-> None]
    \* main_program: line.m_int_forerun = np.ones(...)
    /\ m_int_forerun = [x \in Lines |-> 1]
    /\ m_int_return = [x \in Lines |-> 1]
    /\ m_ext_forerun_trans = [x \in Nodes |-> <<>>]
    /\ m_ext_return_trans = [x \in Nodes |-> <<>>]
    /\ m_int_forerun_trans = [x \in Lines |-> <<>>]
    /\ m_int_return_trans = [x \in Lines |-> <<>>]
    /\ p_ref_forerun = [x \in Nodes |-> NoneSeries]
    /\ p_ref_return = [x \in Nodes |-> NoneSeries]
    /\ p_forerun = [x \in Nodes |-> NoneSeries]
    /\ p_return = [x \in Nodes |-> NoneSeries]
    /\ input_solver_hydr_forerun = <<>>
    /\ input_solver_hydr_return = <<>>
    \* every segment starts at the soil temperature of time_sim_start
    /\ line_t_forerun = [x \in Lines |-> [i \in 1..line_n(x) |-> soil_temp(time_sim_start)]]
    /\ line_t_return = [x \in Lines |-> [i \in 1..line_n(x) |-> soil_temp(time_sim_start)]]
    /\ node_t_forerun_trans = [x \in Nodes |-> <<>>]
    /\ node_t_return_trans = [x \in Nodes |-> <<>>]
    /\ line_calc_forerun = [x \in Lines |-> 0]
    /\ node_calc_forerun = [x \in Nodes |-> 0]
    /\ line_calc_return = [x \in Lines |-> 0]
    /\ node_calc_return = [x \in Nodes |-> 0]

(***************************************************************************)
(* History record: what an observer of the run writes down.                *)
(***************************************************************************)
ZeroLines == [x \in Lines |-> 0]
ZeroNodes == [x \in Nodes |-> 0]

HInit ==
    [ rounds      |-> [d \in {"forerun", "return"} |-> 0],      \* solves of this step
      flips       |-> [d \in {"forerun", "return"} |-> ZeroLines], \* column flips of this step
      first_m     |-> [d \in {"forerun", "return"} |-> ZeroLines], \* result of the step's first solve
      assumed     |-> [d \in {"forerun", "return"} |-> matrix_coupl_forerun], \* matrix at the first solve
      solved_with |-> [d \in {"forerun", "return"} |-> matrix_coupl_forerun], \* matrix of the last solve
      hyd_done    |-> FALSE,     \* solve_network_hydr has returned in this step
      made_matrix |-> 0,         \* calls of make_matrix_coupl
      passes      |-> [d \in {"forerun", "return"} |-> 0],      \* passes of the propagation loop
      node_visits |-> [d \in {"forerun", "return"} |-> ZeroNodes], \* temperature assignments, this substep
      line_visits |-> [d \in {"forerun", "return"} |-> ZeroLines], \* segment-chain updates, this substep
      sources     |-> [d \in {"forerun", "return"} |-> {}],     \* nodes seeded as sources, this substep
      substeps    |-> 0,         \* completed thermal substeps of the run
      steps       |-> 0,         \* hydraulic steps begun
      same_inputs |-> FALSE,     \* the step has the inputs of the step before it
      \* results of the hydraulic step before the current one
      prev        |-> [ matrix_coupl_forerun |-> matrix_coupl_forerun,
                        matrix_coupl_return |-> matrix_coupl_return,
                        m_int_forerun |-> m_int_forerun, m_int_return |-> m_int_return,
                        p_forerun |-> p_forerun, p_return |-> p_return ] ]

Sat(n) == IF n < MaxRounds THEN n + 1 ELSE n

Init ==
    /\ InitShape(TreeShapes)
    /\ InitRest
    /\ h = HInit

InitPath ==
    /\ InitShape(PathologicalShapes \cup PairShapes)
    /\ InitRest
    /\ h = HInit

(***************************************************************************)
(* fcns_read.read_grid_setup: the reference-pressure cells.                *)
(***************************************************************************)
RECURSIVE SortedSeq(_)
SortedSeq(S) ==
    IF S = {} THEN <<>>
    ELSE LET x == CHOOSE y \in S : \A z \in S : y <= z
         IN <<x>> \o SortedSeq(S \ {x})

\* column 8 of the node sheet: the feeder id
feed_in(x_node) == IF node_kind[x_node] = "feeder" THEN x_node + 1 ELSE None

read_grid_setup ==
    /\ pc = "read_grid_setup"
    /\ IF \E x \in sheet_p_ref : feed_in(x) = None
       THEN /\ pc' = "aborted"
            /\ err' = "Exception: reference node is not a feeder"
            /\ p_ref' = p_ref
       ELSE /\ pc' = "sanity_check"
            /\ err' = err
            /\ p_ref' = SortedSeq(sheet_p_ref)
    /\ UNCHANGED <<topo_vars, input_vars, temp_soil, clock_vars, hyd_vars, therm_vars, h>>

(***************************************************************************)
(* main_program: sanity check for p_ref, before the main loop.             *)
(***************************************************************************)
\* a wrong variant, which the reference-node property must reject: only
\* the missing reference is refused
sanity_check_zero_only ==
    /\ pc = "sanity_check"
    /\ IF Len(p_ref) = 0
       THEN pc' = "aborted" /\ err' = "exit: no reference node"
       ELSE pc' = "loop_head" /\ err' = err
    /\ UNCHANGED <<topo_vars, p_ref, input_vars, temp_soil, clock_vars, hyd_vars, therm_vars, h>>
sanity_check ==
    /\ pc = "sanity_check"
    /\ IF Len(p_ref) = 0
       THEN pc' = "aborted" /\ err' = "exit: no reference node"
       ELSE IF Len(p_ref) > 1
       THEN pc' = "aborted" /\ err' = "exit: more than one reference node"
       ELSE pc' = "loop_head" /\ err' = err
    /\ UNCHANGED <<topo_vars, p_ref, input_vars, temp_soil, clock_vars, hyd_vars, therm_vars, h>>

(***************************************************************************)
(* Auxiliary_functions.make_matrix_coupl                                   *)
(***************************************************************************)
\* a wrong variant, which the incidence property must reject: the end
\* node of a pipe is not entered
make_matrix_coupl_start_only ==
    [x \in Nodes |-> [y \in Lines |-> IF line_node_start[y] = x THEN 1 ELSE 0]]
make_matrix_coupl ==
    [x \in Nodes |-> [y \in Lines |->
        \* the end node is written last
        IF line_node_end[y] = x THEN -1
        ELSE IF line_node_start[y] = x THEN 1
        ELSE 0]]

(***************************************************************************)
(* main_program: external mass flows of one hydraulic step.                *)
(***************************************************************************)
\* m_ext_current = V_dot * var_H2O.rho / 1000
MassFlow(V) == (V * rho) \div 1000

\* node.m_ext_forerun_check[x_node] built from the step's series elements
m_ext_forerun_check(vsim, vfeed, x_node) ==
    IF node_kind[x_node] = "distrib" THEN 0
    ELSE IF feed_in(x_node) # None /\ x_node # p_ref[1] THEN MassFlow(vfeed[x_node])
    ELSE IF vsim[x_node] = None THEN None
    ELSE -MassFlow(vsim[x_node])

m_ext_return_check(vsim, vfeed, x_node) ==
    IF node_kind[x_node] = "distrib" THEN 0
    ELSE IF feed_in(x_node) # None /\ x_node # p_ref[1] THEN -MassFlow(vfeed[x_node])
    ELSE IF vsim[x_node] = None THEN None
    ELSE MassFlow(vsim[x_node])

(***************************************************************************)
(* Auxiliary_functions.number_unknowns: the solver's start vectors.        *)
(***************************************************************************)
Repeat(v, n) == [i \in 1..n |-> v]
Range(s) == {s[i] : i \in DOMAIN s}

\* the feeders that are listed in node.p_ref, in node order
RefFeeders == SortedSeq({x \in Nodes : feed_in(x) # None /\ x \in Range(p_ref)})

\* a wrong variant, which the unknown-count property must reject: a
\* pressure start value for every node
number_unknowns_all_nodes(vfeed, sign) ==
    Repeat(m_dot_start, Cardinality(Lines))
    \o Repeat(p_start, Cardinality(Nodes))
    \o [i \in 1..Len(RefFeeders) |-> sign * MassFlow(vfeed[RefFeeders[i]])]
\* input_solver_hydr_forerun (sign 1) and input_solver_hydr_return (sign -1)
number_unknowns(vfeed, sign) ==
    Repeat(m_dot_start, Cardinality(Lines))
    \o Repeat(p_start, Cardinality(Nodes) - Len(p_ref))
    \o [i \in 1..Len(RefFeeders) |-> sign * MassFlow(vfeed[RefFeeders[i]])]

\* main_program, PRESSURES: the given pressure of a node, None if unknown
p_ref_check(p_given, x_node) ==
    IF \E i \in DOMAIN p_ref : p_ref[i] = x_node THEN p_given ELSE NoneSeries

\* a wrong variant, which the build-once properties must reject: the
\* matrix is rebuilt from the sheet in every step
FirstStepAlways == TRUE
\* if var_sim.cntr_time_hyd == 0: (CREATE COUPLING MATRIX)
FirstStep == cntr_time_hyd = 0

\* main_program lines 204-268 and the first statement of
\* solve_network_hydr, which empties the return matrix
PrepareStep ==
    /\ pc = "loop_head"
    /\ time_sim <= time_sim_end
    /\ \E cs \in [{x \in Nodes : node_kind[x] = "consumer"} -> VolFlows] :
       \E fs \in [{x \in Nodes : node_kind[x] = "feeder"} -> VolFlows] :
          LET vs == [x \in Nodes |-> IF node_kind[x] = "consumer" THEN cs[x] ELSE None]
              vf == [x \in Nodes |-> IF node_kind[x] = "feeder" THEN fs[x] ELSE None]
          IN
          /\ V_dot_sim' = vs
          /\ V_dot_feed' = vf
          /\ Q_dot_sim' = [x \in Nodes |->
                IF node_kind[x] = "consumer" THEN HeatFlowSeries(x, cntr_time_hyd) ELSE NoneSeries]
          /\ m_ext_forerun' = [x \in Nodes |-> m_ext_forerun_check(vs, vf, x)]
          /\ m_ext_return' = [x \in Nodes |-> m_ext_return_check(vs, vf, x)]
          /\ input_solver_hydr_forerun' = number_unknowns(vf, 1)
          /\ input_solver_hydr_return' = number_unknowns(vf, -1)
    /\ p_ref_forerun' = [x \in Nodes |-> p_ref_check(PressFlowFeedSeries(x, cntr_time_hyd), x)]
    /\ p_forerun' = [x \in Nodes |-> p_ref_check(PressFlowFeedSeries(x, cntr_time_hyd), x)]
    /\ p_ref_return' = [x \in Nodes |-> p_ref_check(PressRetFeedSeries(x, cntr_time_hyd), x)]
    /\ p_return' = [x \in Nodes |-> p_ref_check(PressRetFeedSeries(x, cntr_time_hyd), x)]
    /\ matrix_coupl_return' = <<>>
    /\ temp_flow_feed' = [x \in Nodes |->
            IF node_kind[x] = "feeder" THEN TempFeedSeries(x, cntr_time_hyd) ELSE NoneSeries]
    /\ temp_soil' = Append(temp_soil, soil_temp(time_sim))
    /\ matrix_coupl_forerun' =
            IF FirstStep THEN make_matrix_coupl ELSE matrix_coupl_forerun
    /\ pc' = "hyd_forerun"
    /\ h' = [h EXCEPT !.rounds = [d \in {"forerun", "return"} |-> 0],
                      !.flips = [d \in {"forerun", "return"} |-> ZeroLines],
                      !.hyd_done = FALSE,
                      !.made_matrix = IF FirstStep THEN @ + 1 ELSE @,
                      !.steps = @ + 1,
                      !.same_inputs = /\ h.steps >= 1
                                      /\ V_dot_sim' = V_dot_sim
                                      /\ V_dot_feed' = V_dot_feed
                                      /\ p_ref_forerun' = p_ref_forerun
                                      /\ p_ref_return' = p_ref_return,
                      !.prev = [ matrix_coupl_forerun |-> matrix_coupl_forerun,
                                 matrix_coupl_return |-> matrix_coupl_return,
                                 m_int_forerun |-> m_int_forerun, m_int_return |-> m_int_return,
                                 p_forerun |-> p_forerun, p_return |-> p_return ],
                      !.assumed = [@ EXCEPT !["forerun"] = matrix_coupl_forerun']]
    /\ UNCHANGED <<err, topo_vars, p_ref, clock_vars,
                   m_int_forerun, m_int_return, trans_vars, therm_vars>>

(***************************************************************************)
(* hydraulic_equ_system: residuals, root finder, direction correction.     *)
(***************************************************************************)
\* nodes whose external mass flow is an unknown of the system
UnknownExt(mcheck) == {x \in Nodes : mcheck[x] = None}

\* equ_network_forerun / equ_network_return, continuity equation of x_node:
\* the signed sum of the adjoining pipes' flows minus the external flow
equ_continuity(matrix_coupl, m_int, m_ext, x_node) ==
    SumOver(Lines, [y \in Lines |-> matrix_coupl[x_node][y] * m_int[y]]) - m_ext[x_node]

\* a wrong variant, which the continuity property must reject: the
\* reference node's external flow is left at zero
WithUnknownsZero(matrix_coupl, m_int, mcheck) ==
    [x \in Nodes |-> IF mcheck[x] = None THEN 0 ELSE mcheck[x]]
\* the unknown external flows as the start-value loop writes them: the
\* continuity equation of an unknown node holds for exactly one value
WithUnknowns(matrix_coupl, m_int, mcheck) ==
    [x \in Nodes |->
        IF mcheck[x] = None
        THEN SumOver(Lines, [y \in Lines |-> matrix_coupl[x][y] * m_int[y]])
        ELSE mcheck[x]]

\* range in which the root of a solvable system lies
SearchRange(mcheck) ==
    LET b == SumOver(Nodes \ UnknownExt(mcheck), [x \in Nodes |-> IF mcheck[x] = None THEN 0 ELSE Abs(mcheck[x])])
    IN (-b)..b

\* what a failed root search may leave behind, by sign
GarbageRange == (-1)..1

\* opt.fsolve(equ_network_..., ...): the pipe flows of the last residual
\* evaluation.  The pressure equations add one equation per pipe for the
\* node pressures and are solvable for every flow vector of a tree.
fsolve(matrix_coupl, mcheck) ==
    LET roots == { m \in [Lines -> SearchRange(mcheck)] :
                     \A x \in Nodes \ UnknownExt(mcheck) :
                        equ_continuity(matrix_coupl, m, mcheck, x) = 0 }
    IN IF Cardinality(roots) = 1 THEN roots ELSE [Lines -> GarbageRange]

\* the pressure loss of a pipe, the last term of its pressure equation
PressureLoss(x_line, m) ==
    RMul(RNorm(8 * m * m, dia * dia * dia * dia * pi * pi * rho),
         RAdd(RDiv(RMul(R(lambd), line_l[x_line]), R(dia)), R(zeta)))

\* rho * g * h of a node
GeoHead(x_node) == R(rho * g * h_coord(x_node))

\* PRESSURE EQUATION FOR EACH LINE, solved for the pressure of x_node from
\* the pressure p_z of the pipe's other end z_node
PressureOver(matrix_coupl, m, x_line, x_node, z_node, p_z) ==
    LET other == RMul(R(matrix_coupl[z_node][x_line]), RAdd(p_z, GeoHead(z_node)))
        head == RMul(R(matrix_coupl[x_node][x_line]), RSub(PressureLoss(x_line, m[x_line]), other))
    IN RSub(head, GeoHead(x_node))

\* the pressure equations carried k pipes further from the known pressures
RECURSIVE PropagateP(_, _, _, _)
PropagateP(matrix_coupl, m, p, k) ==
    IF k = 0 THEN p
    ELSE PropagateP(matrix_coupl, m,
            [x \in Nodes |->
                IF p[x] # NoneSeries THEN p[x]
                ELSE LET known == {q \in Lines \X Nodes :
                                     /\ q[2] # x
                                     /\ matrix_coupl[x][q[1]] # 0
                                     /\ matrix_coupl[q[2]][q[1]] # 0
                                     /\ p[q[2]] # NoneSeries}
                     IN IF known = {} THEN NoneSeries
                        ELSE LET q == CHOOSE r \in known : TRUE
                             IN PressureOver(matrix_coupl, m, q[1], x, q[2], p[q[2]])],
            k - 1)

\* a wrong variant, which the frame property must reject: every node's
\* pressure is an unknown, the reference node's too
PressuresAllUnknown(matrix_coupl, m, pref) ==
    LET first == CHOOSE x \in Nodes : \A z \in Nodes : x <= z
        p == PropagateP(matrix_coupl, m,
                        [x \in Nodes |-> IF x = first THEN R(p_start) ELSE NoneSeries],
                        Cardinality(Nodes))
    IN [x \in Nodes |-> IF p[x] = NoneSeries THEN R(p_start) ELSE p[x]]
\* node.p_forerun / node.p_return after a solve: a pressure that no
\* equation ties to the reference keeps its start value
Pressures(matrix_coupl, m, pref) ==
    LET p == PropagateP(matrix_coupl, m, pref, Cardinality(Nodes))
    IN [x \in Nodes |-> IF p[x] = NoneSeries THEN R(p_start) ELSE p[x]]

\* a wrong variant, which the termination property must reject: a pipe
\* at rest counts as flowing backwards
WrongDirectionNonPositive(m_int) == {y \in Lines : m_int[y] <= -Tol}
\* CHECK FLOW DIRECTIONS: the pipes whose solved flow is negative
WrongDirection(m_int) == {y \in Lines : m_int[y] < -Tol}

\* a wrong variant, which the flip property must reject: only the +1 of
\* a column is rewritten
FlipColumnsFirstOnly(matrix_coupl, W) ==
    [x \in Nodes |-> [y \in Lines |->
        IF y \in W /\ matrix_coupl[x][y] = 1 THEN -1 ELSE matrix_coupl[x][y]]]
\* the column flip of every pipe in W
FlipColumns(matrix_coupl, W) ==
    [x \in Nodes |-> [y \in Lines |->
        IF y \in W
        THEN IF matrix_coupl[x][y] = 1 THEN -1
             ELSE IF matrix_coupl[x][y] = -1 THEN 1
             ELSE matrix_coupl[x][y]
        ELSE matrix_coupl[x][y]]]

\* a wrong variant, which the negation property must reject: the return
\* side starts with the forerun matrix itself
NegateNot(matrix_coupl) == matrix_coupl
\* var_sim.matrix_coupl_return = var_sim.matrix_coupl_forerun*(-1)
Negate(matrix_coupl) == [x \in Nodes |-> [y \in Lines |-> -matrix_coupl[x][y]]]

\* a wrong variant, which the direction property must reject: one solve,
\* one round of flips, no solve after it
LoopExitsAlways(W) == TRUE
\* while cntr_wrong_direction > 0: the loop's exit test
LoopExits(W) == Cardinality(W) = 0

FlipCount(f, W) == [y \in Lines |-> IF y \in W THEN Sat(f[y]) ELSE f[y]]

\* one round of the forerun loop: solve, check directions, flip
HydForerunRound ==
    /\ pc = "hyd_forerun"
    /\ \E m \in fsolve(matrix_coupl_forerun,
                       [x \in Nodes |-> m_ext_forerun_check(V_dot_sim, V_dot_feed, x)]) :
        LET W == WrongDirection(m)
            flipped == FlipColumns(matrix_coupl_forerun, W)
        IN /\ m_int_forerun' = m
           /\ m_ext_forerun' = WithUnknowns(matrix_coupl_forerun, m,
                    [x \in Nodes |-> m_ext_forerun_check(V_dot_sim, V_dot_feed, x)])
           /\ matrix_coupl_forerun' = flipped
           /\ p_forerun' = Pressures(matrix_coupl_forerun, m, p_ref_forerun)
           /\ IF LoopExits(W)
              THEN /\ pc' = "hyd_return"
                   /\ matrix_coupl_return' = Negate(flipped)
              ELSE /\ pc' = pc
                   /\ matrix_coupl_return' = matrix_coupl_return
           /\ h' = [h EXCEPT !.rounds["forerun"] = Sat(@),
                             !.flips["forerun"] = FlipCount(@, W),
                             !.first_m["forerun"] = IF h.rounds["forerun"] = 0 THEN m ELSE @,
                             !.solved_with["forerun"] = matrix_coupl_forerun,
                             !.assumed["return"] = IF LoopExits(W) THEN Negate(flipped) ELSE @]
    /\ UNCHANGED <<err, topo_vars, p_ref, input_vars, temp_soil, clock_vars,
                   m_ext_return, m_int_return, p_return, solver_vars,
                   trans_vars, therm_vars>>

\* one round of the return loop; on exit the step's flows are appended to
\* the *_trans arrays and solve_network_hydr returns
HydReturnRound ==
    /\ pc = "hyd_return"
    /\ \E m \in fsolve(matrix_coupl_return,
                       [x \in Nodes |-> m_ext_return_check(V_dot_sim, V_dot_feed, x)]) :
        LET W == WrongDirection(m)
            flipped == FlipColumns(matrix_coupl_return, W)
            mext == WithUnknowns(matrix_coupl_return, m,
                    [x \in Nodes |-> m_ext_return_check(V_dot_sim, V_dot_feed, x)])
        IN /\ m_int_return' = m
           /\ m_ext_return' = mext
           /\ matrix_coupl_return' = flipped
           /\ p_return' = Pressures(matrix_coupl_return, m, p_ref_return)
           /\ IF LoopExits(W)
              THEN /\ pc' = "therm_start"
                   /\ m_ext_forerun_trans' = [x \in Nodes |-> Append(m_ext_forerun_trans[x], m_ext_forerun[x])]
                   /\ m_ext_return_trans' = [x \in Nodes |-> Append(m_ext_return_trans[x], mext[x])]
                   /\ m_int_forerun_trans' = [y \in Lines |-> Append(m_int_forerun_trans[y], m_int_forerun[y])]
                   /\ m_int_return_trans' = [y \in Lines |-> Append(m_int_return_trans[y], m[y])]
              ELSE /\ pc' = pc
                   /\ UNCHANGED <<m_ext_forerun_trans, m_ext_return_trans,
                                  m_int_forerun_trans, m_int_return_trans>>
           /\ h' = [h EXCEPT !.rounds["return"] = Sat(@),
                             !.flips["return"] = FlipCount(@, W),
                             !.first_m["return"] = IF h.rounds["return"] = 0 THEN m ELSE @,
                             !.solved_with["return"] = matrix_coupl_return,
                             !.hyd_done = LoopExits(W)]
    /\ cntr_therm_1' = 0
    /\ UNCHANGED <<err, topo_vars, p_ref, input_vars, temp_soil,
                   time_sim, cntr_time_hyd, cntr_time_therm_forerun, cntr_time_therm_return,
                   matrix_coupl_forerun, m_ext_forerun, m_int_forerun, p_forerun,
                   solver_vars, therm_vars>>

(***************************************************************************)
(* thermal_equ_system.solve_network_therm                                  *)
(***************************************************************************)
\* a wrong variant, which the loop-order property must reject: the step
\* sizes are not brought to the same unit
cntr_therm_max_minutes == delta_time_hyd
\* Number of thermal calculation steps within one hydraulic calc. step
cntr_therm_max == (delta_time_hyd * 60) \div delta_time_therm

\* a wrong variant, which the soil-temperature property must reject: the
\* soil temperature of the first step is used throughout
SoilFirst == temp_soil[1]
\* var_sim.temp_soil[-1]
SoilNow == temp_soil[Len(temp_soil)]

\* the heat-loss area factor of the two seeding / loop variants
AreaPiDiaDx(x_line) == RMul(R(pi * dia), line_dx(x_line))
AreaDx(x_line) == line_dx(x_line)

\* line.t + line.dTdt * delta_time_therm: every segment from the old values
\* of itself and of its upstream neighbour, the first from the inlet t_in
line_step(t, m, t_in, area, x_line) ==
    [i \in 1..Len(t) |->
        LET prev == IF i = 1 THEN t_in ELSE t[i - 1]
            soil == SoilNow
            gain == RMul(R(m * c_p), RSub(prev, t[i]))
            loss == RMul(RMul(R(htc), RSub(t[i], soil)), area)
            mass == RDiv(RMul(R(rho * c_p), RMul(line_dx(x_line), R(pi * dia * dia))), R(4))
            dTdt == RDiv(RSub(gain, loss), mass)
        IN RAdd(t[i], RMul(dTdt, R(delta_time_therm)))]

\* collections.Counter(matrix_coupl[x_node])[-1] and the pipes behind it
LinesIn(matrix_coupl, x_node) == {y \in Lines : matrix_coupl[x_node][y] = -1}
LinesOut(matrix_coupl, x_node) == {y \in Lines : matrix_coupl[x_node][y] = 1}

\* Find the starting points of the network
Sources(matrix_coupl, m_ext) ==
    {x \in Nodes : m_ext[x] >= 0 /\ LinesIn(matrix_coupl, x) = {}}

\* a wrong variant, which the propagation-order property must reject: the
\* inlet is read at the node the pipe ends at
x_node_end(matrix_coupl, x_line) ==
    CHOOSE x \in Nodes : matrix_coupl[x][x_line] = -1
\* the first node with a +1 in the pipe's column (x_node_ref)
StartNodes(matrix_coupl, x_line) == {x \in Nodes : matrix_coupl[x][x_line] = 1}
x_node_ref(matrix_coupl, x_line) ==
    CHOOSE x \in StartNodes(matrix_coupl, x_line) :
        \A z \in StartNodes(matrix_coupl, x_line) : x <= z

\* nodes which can be solved in the current pass
Ready(matrix_coupl, node_calc, line_calc) ==
    {x \in Nodes : /\ node_calc[x] = 0
                   /\ \A y \in LinesIn(matrix_coupl, x) : line_calc[y] = 1
                   /\ \E y \in LinesIn(matrix_coupl, x) : line_calc[y] = 1}

\* sum_1 and sum_2 over the incoming pipes of a node
MixSum1(matrix_coupl, t, m_trans, x_node) ==
    RSumOver(LinesIn(matrix_coupl, x_node),
             [y \in Lines |-> RMul(t[y][Len(t[y])], R(PyIndex(m_trans[y], cntr_time_hyd)))])
\* a wrong variant, which the mixing law must reject: the divisor counts
\* the incoming pipes
MixSum2Count(matrix_coupl, m_trans, x_node) ==
    Cardinality(LinesIn(matrix_coupl, x_node))
MixSum2(matrix_coupl, m_trans, x_node) ==
    SumOver(LinesIn(matrix_coupl, x_node),
            [y \in Lines |-> PyIndex(m_trans[y], cntr_time_hyd)])

\* the outlet of the first incoming pipe (x_line_ref)
x_line_ref(matrix_coupl, x_node) ==
    CHOOSE y \in LinesIn(matrix_coupl, x_node) :
        \A z \in LinesIn(matrix_coupl, x_node) : y <= z

SetAt(s, i, v) == [s EXCEPT ![i + 1] = v]
AllOne(f) == \A k \in DOMAIN f : f[k] = 1
Bump(f, S) == [k \in DOMAIN f |-> IF k \in S THEN Sat(f[k]) ELSE f[k]]

\* lines 88-141: start of a substep, reset of the bookkeeping arrays,
\* placeholders of the nodal temperatures, seeding of the forerun sources
ThermSubstepStart ==
    /\ pc = "therm_start"
    /\ LET src == Sources(matrix_coupl_forerun, m_ext_forerun)
           seeded == {y \in Lines : \E x \in src : matrix_coupl_forerun[x][y] = 1}
           tf0 == [x \in Nodes |-> Append(node_t_forerun_trans[x], R(0))]
       IN IF \E x \in src : temp_flow_feed[x] = NoneSeries
          THEN /\ pc' = "aborted"
               /\ err' = "TypeError: 'NoneType' object is not subscriptable"
               /\ h' = [h EXCEPT !.sources["forerun"] = src]
               /\ UNCHANGED therm_vars
          ELSE /\ pc' = "therm_forerun"
               /\ err' = err
               /\ node_t_forerun_trans' =
                    [x \in Nodes |-> IF x \in src
                                     THEN SetAt(tf0[x], cntr_time_therm_forerun, temp_flow_feed[x])
                                     ELSE tf0[x]]
               /\ node_t_return_trans' = [x \in Nodes |-> Append(node_t_return_trans[x], R(0))]
               /\ line_t_forerun' =
                    [y \in Lines |->
                        IF y \in seeded
                        THEN line_step(line_t_forerun[y],
                                       PyIndex(m_int_forerun_trans[y], cntr_time_hyd),
                                       temp_flow_feed[x_node_ref(matrix_coupl_forerun, y)],
                                       AreaPiDiaDx(y), y)
                        ELSE line_t_forerun[y]]
               /\ line_calc_forerun' = [y \in Lines |-> IF y \in seeded THEN 1 ELSE 0]
               /\ node_calc_forerun' =
                    [x \in Nodes |-> IF x \in src /\ LinesOut(matrix_coupl_forerun, x) # {} THEN 1 ELSE 0]
               /\ line_calc_return' = [y \in Lines |-> 0]
               /\ node_calc_return' = [x \in Nodes |-> 0]
               /\ line_t_return' = line_t_return
               /\ h' = [h EXCEPT !.sources["forerun"] = src,
                                 !.sources["return"] = {},
                                 !.passes = [d \in {"forerun", "return"} |-> 0],
                                 !.node_visits = [d \in {"forerun", "return"} |->
                                        IF d = "forerun" THEN Bump(ZeroNodes, src) ELSE ZeroNodes],
                                 !.line_visits = [d \in {"forerun", "return"} |->
                                        IF d = "forerun" THEN Bump(ZeroLines, seeded) ELSE ZeroLines]]
    /\ UNCHANGED <<topo_vars, p_ref, input_vars, temp_soil, clock_vars, hyd_vars>>

\* lines 176-273: the forerun temperature of a ready node
node_t_forerun(x_node) ==
    LET m_ext == PyIndex(m_ext_forerun_trans[x_node], cntr_time_hyd)
        sum_1 == MixSum1(matrix_coupl_forerun, line_t_forerun, m_int_forerun_trans, x_node)
        sum_2 == MixSum2(matrix_coupl_forerun, m_int_forerun_trans, x_node)
        m_ext_current == MassFlow(V_dot_feed[x_node])
    IN IF m_ext <= 0
       THEN IF Cardinality(LinesIn(matrix_coupl_forerun, x_node)) = 1
            THEN LET t == line_t_forerun[x_line_ref(matrix_coupl_forerun, x_node)] IN t[Len(t)]
            ELSE RDiv(sum_1, R(sum_2))
       ELSE RDiv(RAdd(RMul(temp_flow_feed[x_node], R(m_ext_current)), sum_1),
                 R(m_ext_current + sum_2))

\* line 260: node.m_ext_forerun[x_node] is a number, not a series
ScalarIndexed(ready) ==
    {x \in ready : /\ PyIndex(m_ext_forerun_trans[x], cntr_time_hyd) > 0
                   /\ ~(feed_in(x) # None /\ x = p_ref[1])}

\* lines 147-308: one pass of the forerun propagation loop
ThermForerunPass ==
    /\ pc = "therm_forerun"
    /\ LET ready == Ready(matrix_coupl_forerun, node_calc_forerun, line_calc_forerun)
           node_calc == [x \in Nodes |-> IF x \in ready THEN 1 ELSE node_calc_forerun[x]]
           t_node == [x \in Nodes |->
                        IF x \in ready
                        THEN SetAt(node_t_forerun_trans[x], cntr_time_therm_forerun, node_t_forerun(x))
                        ELSE node_t_forerun_trans[x]]
           now == {y \in Lines : /\ line_calc_forerun[y] = 0
                                 /\ \E x \in Nodes : matrix_coupl_forerun[x][y] = 1 /\ node_calc[x] = 1}
           line_calc == [y \in Lines |-> IF y \in now THEN 1 ELSE line_calc_forerun[y]]
           finished == AllOne(line_calc) /\ AllOne(node_calc)
       IN IF ScalarIndexed(ready) # {}
          THEN /\ pc' = "aborted"
               /\ err' = "IndexError: invalid index to scalar variable"
               /\ UNCHANGED <<therm_vars, cntr_time_therm_forerun, h>>
          ELSE /\ err' = err
               /\ node_t_forerun_trans' = t_node
               /\ node_calc_forerun' = node_calc
               /\ line_t_forerun' =
                    [y \in Lines |->
                        IF y \in now
                        THEN line_step(line_t_forerun[y],
                                       PyIndex(m_int_forerun_trans[y], cntr_time_hyd),
                                       PyIndex(t_node[x_node_ref(matrix_coupl_forerun, y)],
                                               cntr_time_therm_forerun),
                                       AreaDx(y), y)
                        ELSE line_t_forerun[y]]
               /\ line_calc_forerun' = line_calc
               /\ cntr_time_therm_forerun' = IF finished THEN cntr_time_therm_forerun + 1
                                             ELSE cntr_time_therm_forerun
               /\ pc' = IF finished THEN "therm_return_seed" ELSE pc
               /\ h' = [h EXCEPT !.passes["forerun"] = Sat(@),
                                 !.node_visits["forerun"] = Bump(@, ready),
                                 !.line_visits["forerun"] = Bump(@, now)]
               /\ UNCHANGED <<line_t_return, node_t_return_trans, line_calc_return, node_calc_return>>
    /\ UNCHANGED <<topo_vars, p_ref, input_vars, temp_soil, time_sim, cntr_time_hyd, cntr_therm_1,
                   cntr_time_therm_return, hyd_vars>>

\* lines 319-341: the return temperature of a return-side source
\* consumer energy balance, lines 331-333
t_current(x_node) ==
    LET V_current == RMul(RDiv(R(m_ext_return[x_node]), R(rho)), R(1000))
        Q_current == Q_dot_sim[x_node]
    IN RSub(PyIndex(node_t_forerun_trans[x_node], cntr_time_therm_return),
            RDiv(RMul(Q_current, R(1000)),
                 RMul(RMul(RDiv(V_current, R(1000)), R(rho)), R(c_p))))

\* a wrong variant, which the energy balance property must reject
ClipToSoilNever(t) == t
\* lines 338-341: not below the soil temperature
ClipToSoil(t) == IF RLess(t, SoilNow) THEN SoilNow ELSE t

\* a wrong variant, which the carried-difference property must reject: a
\* source at rest always takes its forerun temperature
source_t_return_forerun(x_node) ==
    IF m_ext_return[x_node] = 0
    THEN PyIndex(node_t_forerun_trans[x_node], cntr_time_therm_return)
    ELSE ClipToSoil(t_current(x_node))
source_t_return(x_node) ==
    IF m_ext_return[x_node] = 0
    THEN IF cntr_time_hyd = 0
         THEN PyIndex(node_t_forerun_trans[x_node], cntr_time_therm_return)
         ELSE LET deltaT_last == RSub(PyIndex(node_t_forerun_trans[x_node], cntr_time_therm_return - 1),
                                      PyIndex(node_t_return_trans[x_node], cntr_time_therm_return - 1))
              IN RSub(PyIndex(node_t_forerun_trans[x_node], cntr_time_therm_return), deltaT_last)
    ELSE ClipToSoil(t_current(x_node))

\* lines 314-354: seeding of the return sources
ThermReturnSeed ==
    /\ pc = "therm_return_seed"
    /\ LET src == Sources(matrix_coupl_return, m_ext_return)
           seeded == {y \in Lines : \E x \in src : matrix_coupl_return[x][y] = 1}
           t_node == [x \in Nodes |->
                        IF x \in src
                        THEN SetAt(node_t_return_trans[x], cntr_time_therm_return, source_t_return(x))
                        ELSE node_t_return_trans[x]]
       IN IF \E x \in src : m_ext_return[x] # 0 /\ feed_in(x) # None
          THEN /\ pc' = "aborted"
               /\ err' = "ValueError: Umkehr der Stroemungsrichtung bei Einspeiser"
               /\ h' = [h EXCEPT !.sources["return"] = src]
               /\ UNCHANGED <<line_t_return, node_t_return_trans, line_calc_return, node_calc_return>>
          ELSE /\ pc' = "therm_return"
               /\ err' = err
               /\ node_t_return_trans' = t_node
               /\ line_t_return' =
                    [y \in Lines |->
                        IF y \in seeded
                        THEN line_step(line_t_return[y],
                                       PyIndex(m_int_return_trans[y], cntr_time_hyd),
                                       PyIndex(t_node[x_node_ref(matrix_coupl_return, y)],
                                               cntr_time_therm_return),
                                       AreaDx(y), y)
                        ELSE line_t_return[y]]
               /\ line_calc_return' = [y \in Lines |-> IF y \in seeded THEN 1 ELSE line_calc_return[y]]
               /\ node_calc_return' =
                    [x \in Nodes |-> IF x \in src /\ LinesOut(matrix_coupl_return, x) # {}
                                     THEN 1 ELSE node_calc_return[x]]
               /\ h' = [h EXCEPT !.sources["return"] = src,
                                 !.node_visits["return"] = Bump(@, src),
                                 !.line_visits["return"] = Bump(@, seeded)]
    /\ UNCHANGED <<topo_vars, p_ref, input_vars, temp_soil, clock_vars, hyd_vars,
                   line_t_forerun, node_t_forerun_trans, line_calc_forerun, node_calc_forerun>>

\* lines 424-425: the temperature of a consumer's external return stream
temp_ext_return(x_node) ==
    RSub(PyIndex(node_t_forerun_trans[x_node], cntr_time_therm_return),
         RDiv(RMul(Q_dot_sim[x_node], R(1000)),
              RMul(RMul(RDiv(R(V_dot_sim[x_node]), R(1000)), R(rho)), R(c_p))))

\* lines 383-474: the return temperature of a ready node
node_t_return(x_node) ==
    LET m_ext == PyIndex(m_ext_return_trans[x_node], cntr_time_hyd)
        sum_1 == MixSum1(matrix_coupl_return, line_t_return, m_int_return_trans, x_node)
        sum_2 == MixSum2(matrix_coupl_return, m_int_return_trans, x_node)
        previous == PyIndex(node_t_return_trans[x_node], cntr_time_therm_return - 1)
    IN IF m_ext = 0
       THEN IF Cardinality(LinesIn(matrix_coupl_return, x_node)) = 1
            THEN LET t == line_t_return[x_line_ref(matrix_coupl_return, x_node)] IN t[Len(t)]
            ELSE IF sum_2 # 0 THEN RDiv(sum_1, R(sum_2)) ELSE previous
       ELSE IF m_ext > 0 /\ feed_in(x_node) = None
       THEN IF m_ext + sum_2 # 0
            THEN RDiv(RAdd(RMul(temp_ext_return(x_node), R(m_ext)), sum_1), R(m_ext + sum_2))
            ELSE previous
       ELSE RDiv(sum_1, R(sum_2))

\* lines 357-508: one pass of the return propagation loop; the pass that
\* completes the return side ends the substep, and the last substep ends
\* the hydraulic step (main_program lines 276 and 337)
ThermReturnPass ==
    /\ pc = "therm_return"
    /\ LET ready == Ready(matrix_coupl_return, node_calc_return, line_calc_return)
           node_calc == [x \in Nodes |-> IF x \in ready THEN 1 ELSE node_calc_return[x]]
           t_node == [x \in Nodes |->
                        IF x \in ready
                        THEN SetAt(node_t_return_trans[x], cntr_time_therm_return, node_t_return(x))
                        ELSE node_t_return_trans[x]]
           now == {y \in Lines : /\ line_calc_return[y] = 0
                                 /\ \E x \in Nodes : matrix_coupl_return[x][y] = 1 /\ node_calc[x] = 1}
           line_calc == [y \in Lines |-> IF y \in now THEN 1 ELSE line_calc_return[y]]
           finished == AllOne(line_calc) /\ AllOne(node_calc)
           last == cntr_therm_1 + 1 = cntr_therm_max
       IN /\ node_t_return_trans' = t_node
          /\ node_calc_return' = node_calc
          /\ line_t_return' =
                [y \in Lines |->
                    IF y \in now
                    THEN line_step(line_t_return[y],
                                   PyIndex(m_int_return_trans[y], cntr_time_hyd),
                                   PyIndex(t_node[x_node_ref(matrix_coupl_return, y)],
                                           cntr_time_therm_return),
                                   AreaPiDiaDx(y), y)
                    ELSE line_t_return[y]]
          /\ line_calc_return' = line_calc
          /\ cntr_time_therm_return' = IF finished THEN cntr_time_therm_return + 1
                                       ELSE cntr_time_therm_return
          /\ cntr_therm_1' = IF finished THEN (IF last THEN 0 ELSE cntr_therm_1 + 1) ELSE cntr_therm_1
          /\ cntr_time_hyd' = IF finished /\ last THEN cntr_time_hyd + 1 ELSE cntr_time_hyd
          /\ time_sim' = IF finished /\ last THEN time_sim + delta_time_hyd ELSE time_sim
          /\ pc' = IF ~finished THEN pc ELSE IF last THEN "loop_head" ELSE "therm_start"
          /\ h' = [h EXCEPT !.passes["return"] = Sat(@),
                            !.node_visits["return"] = Bump(@, ready),
                            !.line_visits["return"] = Bump(@, now),
                            !.substeps = IF finished THEN @ + 1 ELSE @]
    /\ UNCHANGED <<err, topo_vars, p_ref, input_vars, temp_soil, cntr_time_therm_forerun, hyd_vars,
                   line_t_forerun, node_t_forerun_trans, line_calc_forerun, node_calc_forerun>>

EndRun ==
    /\ pc = "loop_head"
    /\ time_sim > time_sim_end
    /\ pc' = "done"
    /\ UNCHANGED <<err, topo_vars, p_ref, input_vars, temp_soil, clock_vars, hyd_vars, therm_vars, h>>

Next ==
    \/ read_grid_setup
    \/ sanity_check
    \/ PrepareStep
    \/ HydForerunRound
    \/ HydReturnRound
    \/ ThermSubstepStart
    \/ ThermForerunPass
    \/ ThermReturnSeed
    \/ ThermReturnPass
    \/ EndRun

Spec == Init /\ [][Next]_vars
SpecPath == InitPath /\ [][Next]_vars /\ WF_vars(Next)

(***************************************************************************)
(* Properties of the hydraulic solve.                                      *)
(***************************************************************************)
Dirs == {"forerun", "return"}
matrix_coupl(d) == IF d = "forerun" THEN matrix_coupl_forerun ELSE matrix_coupl_return
m_int(d) == IF d = "forerun" THEN m_int_forerun ELSE m_int_return
m_ext(d) == IF d = "forerun" THEN m_ext_forerun ELSE m_ext_return
Column(C, y) == [x \in Nodes |-> C[x][y]]
NegColumn(C, y) == [x \in Nodes |-> -C[x][y]]

\* C1: when solve_network_hydr has returned, every pipe's forerun and
\* return mass flow is >= -1e-10 in the direction of the final coupling
\* matrix of its side, and that matrix is the one the last solve of the
\* side used: no column was flipped after the last solve.
C1_NonNegativeAndMatrixOfLastSolve ==
    h.hyd_done =>
        \A d \in Dirs :
            /\ \A y \in Lines : m_int(d)[y] >= -Tol
            /\ matrix_coupl(d) = h.solved_with[d]

\* a step whose forerun correction flipped a pipe has returned
C1_Witness ==
    /\ h.hyd_done
    /\ \E y \in Lines : h.flips["forerun"][y] > 0 /\ m_int_forerun[y] > 0

\* C2: after every completed hydraulic solve, at every node and on both
\* sides, the signed sum of the adjoining pipe flows under the corrected
\* matrix equals the node's external mass flow, which is zero at a
\* distributor.
C2_Continuity ==
    h.hyd_done =>
        \A d \in Dirs : \A x \in Nodes :
            /\ SumOver(Lines, [y \in Lines |-> matrix_coupl(d)[x][y] * m_int(d)[y]]) = m_ext(d)[x]
            /\ node_kind[x] = "distrib" => m_ext(d)[x] = 0

\* a solved step in which a distributor passes a flow on
C2_Witness ==
    /\ h.hyd_done
    /\ \E x \in Nodes : /\ node_kind[x] = "distrib"
                        /\ \E y \in Lines : matrix_coupl_forerun[x][y] = -1 /\ m_int_forerun[y] > 0
                        /\ \E y \in Lines : matrix_coupl_forerun[x][y] = 1 /\ m_int_forerun[y] > 0

\* C3: in a solved step, a pipe's column of the final matrix is the
\* negation of the column assumed at the step's first solve exactly when
\* that first solve gave the pipe a flow below -1e-10; every other pipe
\* keeps the assumed column.
C3_FlippedIffFirstSolveNegative ==
    h.hyd_done =>
        \A d \in Dirs : \A y \in Lines :
            /\ (Column(matrix_coupl(d), y) = NegColumn(h.assumed[d], y)) <=> (h.first_m[d][y] < -Tol)
            /\ ~(h.first_m[d][y] < -Tol) => Column(matrix_coupl(d), y) = Column(h.assumed[d], y)

\* a solved step whose first solve had one pipe negative and one not
C3_Witness ==
    /\ h.hyd_done
    /\ \E y, z \in Lines : /\ h.first_m["forerun"][y] < -Tol
                           /\ h.first_m["forerun"][z] > 0
                           /\ Column(matrix_coupl_forerun, z) = Column(h.assumed["forerun"], z)

\* C4: on a tree with one reference node the correction loop of either
\* side flips every pipe at most once per step, and the solve that follows
\* the first round of flips reports no negative flow: the loop has exited
\* after at most two solves.
C4_AtMostOneFlipTwoSolves ==
    \A d \in Dirs :
        /\ \A y \in Lines : h.flips[d][y] <= 1
        /\ h.rounds[d] <= 2
        /\ h.rounds[d] = 2 => pc # (IF d = "forerun" THEN "hyd_forerun" ELSE "hyd_return")

\* the forerun loop has exited after a round of flips and a clean solve
C4_Witness ==
    /\ pc = "hyd_return"
    /\ h.rounds["forerun"] = 2
    /\ \A y \in Lines : h.flips["forerun"][y] = 1

\* C5: the correction loop is cut off after a bounded number of rounds:
\* it is never still running, with a negative flow reported, once
\* MaxRounds solves of a side have been made in one step.
C5_CorrectionLoopIsCutOff ==
    \A d \in Dirs :
        ~ /\ pc = (IF d = "forerun" THEN "hyd_forerun" ELSE "hyd_return")
          /\ h.rounds[d] = MaxRounds
          /\ WrongDirection(m_int(d)) # {}

\* C6: the first hydraulic solve is reached (the coupling matrix is built,
\* the run is past the checks) only if exactly one node is flagged as
\* pressure reference and this node is a feeder.
C6_ReferenceValidatedBeforeSolve ==
    (h.made_matrix > 0 \/ pc \notin {"read_grid_setup", "sanity_check", "aborted"}) =>
        /\ Cardinality(sheet_p_ref) = 1
        /\ \A x \in sheet_p_ref : feed_in(x) # None

\* a sheet with two flagged feeders is stopped before any matrix is built
C6_Witness ==
    /\ pc = "aborted"
    /\ Cardinality(sheet_p_ref) = 2
    /\ \A x \in sheet_p_ref : feed_in(x) # None
    /\ h.made_matrix = 0
    /\ h.rounds["forerun"] = 0

(***************************************************************************)
(* Properties of the thermal solve.                                        *)
(***************************************************************************)
SingleFeeder == Cardinality({x \in Nodes : feed_in(x) # None}) = 1
Last(s) == s[Len(s)]
line_t(d) == IF d = "forerun" THEN line_t_forerun ELSE line_t_return
node_t_trans(d) == IF d = "forerun" THEN node_t_forerun_trans ELSE node_t_return_trans
node_calc(d) == IF d = "forerun" THEN node_calc_forerun ELSE node_calc_return
m_int_trans(d) == IF d = "forerun" THEN m_int_forerun_trans ELSE m_int_return_trans
m_ext_trans(d) == IF d = "forerun" THEN m_ext_forerun_trans ELSE m_ext_return_trans

\* the return side of the substep started last is complete
ReturnFinished ==
    \/ pc = "therm_start" /\ cntr_therm_1 > 0
    \/ pc \in {"loop_head", "done"} /\ h.substeps > 0
\* the forerun side of the substep started last is complete
ForerunFinished == pc \in {"therm_return_seed", "therm_return"} \/ ReturnFinished
\* the side's results of the substep started last are in place
InSubstep(d) ==
    IF d = "forerun" THEN pc = "therm_forerun" \/ ForerunFinished
    ELSE pc = "therm_return" \/ ReturnFinished
Finished(d) == IF d = "forerun" THEN ForerunFinished ELSE ReturnFinished

\* C7: on a tree with a single feeder no thermal substep fails, either
\* propagation ends within as many passes as there are pipes, no pipe is
\* advanced and no node is assigned twice, and when a side is complete
\* every pipe was advanced and every node assigned exactly once.
C7_EveryNodeAndPipeExactlyOnce ==
    SingleFeeder =>
        /\ ~(pc = "aborted" /\ h.hyd_done)
        /\ \A d \in Dirs :
            /\ h.passes[d] <= Cardinality(Lines)
            /\ \A x \in Nodes : h.node_visits[d][x] <= 1
            /\ \A y \in Lines : h.line_visits[d][y] <= 1
            /\ Finished(d) => /\ \A x \in Nodes : h.node_visits[d][x] = 1
                              /\ \A y \in Lines : h.line_visits[d][y] = 1

\* C8: a propagation loop that can make no further progress is cut off:
\* it is never still running after MaxRounds passes with no node ready
\* and no pipe eligible.
C8_StalledPropagationIsCutOff ==
    \A d \in Dirs :
        ~ /\ pc = (IF d = "forerun" THEN "therm_forerun" ELSE "therm_return")
          /\ h.passes[d] = MaxRounds
          /\ Ready(matrix_coupl(d), node_calc(d),
                   IF d = "forerun" THEN line_calc_forerun ELSE line_calc_return) = {}
          /\ \A y \in Lines :
                (IF d = "forerun" THEN line_calc_forerun ELSE line_calc_return)[y] = 0 =>
                    \A x \in Nodes : matrix_coupl(d)[x][y] = 1 => node_calc(d)[x] = 0

\* the inflow at a node: total mass flow and flow-weighted temperature sum
InflowMass(d, x) ==
    SumOver(LinesIn(matrix_coupl(d), x), [y \in Lines |-> Last(m_int_trans(d)[y])])
InflowHeat(d, x) ==
    RSumOver(LinesIn(matrix_coupl(d), x),
             [y \in Lines |-> RMul(R(Last(m_int_trans(d)[y])), Last(line_t(d)[y]))])

\* C9: a node that is no source, has no external injection and a non-zero
\* total inflow has, once assigned in a substep, the temperature
\* sum(m_i * T_out_i) / sum(m_i) over its incoming pipes, T_out_i being
\* the last segment of pipe i after its update of this substep.
C9_MixingLaw ==
    \A d \in Dirs : \A x \in Nodes :
        ( /\ InSubstep(d)
          /\ node_calc(d)[x] = 1
          /\ x \notin h.sources[d]
          /\ Last(m_ext_trans(d)[x]) <= 0
          /\ InflowMass(d, x) # 0 )
        => Last(node_t_trans(d)[x]) = RDiv(InflowHeat(d, x), R(InflowMass(d, x)))

\* a forerun node mixing two non-zero inflows of different temperature
C9_Witness ==
    /\ InSubstep("forerun")
    /\ \E x \in Nodes :
        /\ node_calc_forerun[x] = 1
        /\ Last(m_ext_forerun_trans[x]) <= 0
        /\ \E y, z \in LinesIn(matrix_coupl_forerun, x) :
              /\ y # z
              /\ Last(m_int_forerun_trans[y]) > 0
              /\ Last(m_int_forerun_trans[z]) > Last(m_int_forerun_trans[y])
              /\ Last(line_t_forerun[y]) # Last(line_t_forerun[z])
              /\ ~IsNaN(Last(line_t_forerun[y])) /\ ~IsNaN(Last(line_t_forerun[z]))

\* T_f - Q / (m * c), Q in kW
EnergyBalance(x) ==
    RSub(Last(node_t_forerun_trans[x]),
         RDiv(RMul(Q_dot_sim[x], R(1000)), R(m_ext_return[x] * c_p)))

\* C10: a consumer that is a return-side source with positive external
\* return flow m is assigned T_f - Q/(m*c) if that is not below the
\* current soil temperature, and the soil temperature otherwise.
C10_ConsumerEnergyBalance ==
    \A x \in Nodes :
        ( /\ InSubstep("return")
          /\ x \in h.sources["return"]
          /\ feed_in(x) = None
          /\ m_ext_return[x] > 0 )
        => Last(node_t_return_trans[x]) =
              IF RLess(EnergyBalance(x), Last(temp_soil)) THEN Last(temp_soil) ELSE EnergyBalance(x)

\* a consumer source whose energy balance falls below the soil temperature
C10_Witness ==
    /\ InSubstep("return")
    /\ \E x \in Nodes :
        /\ x \in h.sources["return"]
        /\ feed_in(x) = None
        /\ m_ext_return[x] > 0
        /\ RLess(EnergyBalance(x), Last(temp_soil))
        /\ Last(node_t_return_trans[x]) = Last(temp_soil)

(***************************************************************************)
(* Error handling of the thermal solve.                                    *)
(***************************************************************************)
\* C11: a feeder whose external return mass flow of the step is positive
\* is never assigned a return temperature, with or without incoming
\* return pipes, and the return side of no substep of that step completes:
\* the substep has aborted instead.
C11_ReversedFeederAborts ==
    \A x \in Nodes :
        ( /\ h.hyd_done
          /\ feed_in(x) # None
          /\ m_ext_return[x] > 0 )
        => /\ h.node_visits["return"][x] = 0
           /\ ~(pc = "therm_start" /\ cntr_therm_1 > 0)
           /\ pc # "loop_head"

\* a node of side d whose temperature of the current substep came out of
\* a mixing computation over several incoming pipes that carry no flow
ZeroInflowMixed(d, x) ==
    /\ InSubstep(d)
    /\ node_calc(d)[x] = 1
    /\ x \notin h.sources[d]
    /\ Cardinality(LinesIn(matrix_coupl(d), x)) > 1
    /\ Last(m_ext_trans(d)[x]) <= 0
    /\ InflowMass(d, x) = 0

\* C12: on either side, a node whose mixing computation meets a total
\* inflow of zero gets a number (no 0/0), namely the value it had in the
\* previous substep; in the first substep of the run, where there is no
\* previous value, it does not get the placeholder 0 that the substep
\* appended for it.
C12_ZeroInflowFallsBack ==
    \A d \in Dirs : \A x \in Nodes :
        ZeroInflowMixed(d, x) =>
            LET t == node_t_trans(d)[x]
            IN /\ ~IsNaN(Last(t))
               /\ Len(t) > 1 => Last(t) = t[Len(t) - 1]
               /\ Len(t) = 1 => Last(t) # R(0)

(***************************************************************************)
(* Properties of solve_network_hydr across hydraulic steps.                *)
(***************************************************************************)
\* the current step has the external flows and the reference pressures of
\* the step before it
SameInputs == h.steps >= 2 /\ h.same_inputs

\* C13: a hydraulic step that starts from the converged state of the step
\* before it, with the same external flows and reference pressures, flips
\* no column on either side and ends with the same two coupling matrices,
\* the same pipe mass flows and the same node pressures.
C13_ResolveIsIdempotent ==
    (h.hyd_done /\ SameInputs) =>
        /\ \A d \in Dirs : \A y \in Lines : h.flips[d][y] = 0
        /\ matrix_coupl_forerun = h.prev.matrix_coupl_forerun
        /\ matrix_coupl_return = h.prev.matrix_coupl_return
        /\ m_int_forerun = h.prev.m_int_forerun
        /\ m_int_return = h.prev.m_int_return
        /\ p_forerun = h.prev.p_forerun
        /\ p_return = h.prev.p_return

\* a second solve with the inputs of the first, which had to flip a pipe
\* and left a pressure drop along it
C13_Witness ==
    /\ h.hyd_done
    /\ SameInputs
    /\ \E y \in Lines : /\ m_int_forerun[y] > 0
                         /\ Column(matrix_coupl_forerun, y) = NegColumn(make_matrix_coupl, y)
    /\ \E x \in Nodes : p_forerun[x] # p_ref_forerun[p_ref[1]]

\* lines 89-139 for one side, from the coupling matrix it starts with: the
\* loop of solve, direction check and flips, at most k + 1 solves long
RECURSIVE SolveAndCorrect(_, _, _, _)
SolveAndCorrect(matrix, mcheck, pref, k) ==
    LET m == CHOOSE r \in fsolve(matrix, mcheck) : TRUE
        W == WrongDirection(m)
    IN IF LoopExits(W) \/ k = 0
       THEN [ matrix_coupl |-> FlipColumns(matrix, W),
              m_int |-> m,
              p |-> Pressures(matrix, m, pref) ]
       ELSE SolveAndCorrect(FlipColumns(matrix, W), mcheck, pref, k - 1)

\* the step's forerun procedure, run on the forerun matrix as the step
\* found it
ForerunAlone ==
    SolveAndCorrect(h.assumed["forerun"],
                    [x \in Nodes |-> m_ext_forerun_check(V_dot_sim, V_dot_feed, x)],
                    p_ref_forerun, MaxRounds)
\* the step's return procedure, line 116 included, run when the forerun
\* matrix is F: before the forerun loop, or between or after its rounds
ReturnFrom(F) ==
    SolveAndCorrect(Negate(F),
                    [x \in Nodes |-> m_ext_return_check(V_dot_sim, V_dot_feed, x)],
                    p_ref_return, MaxRounds)

\* the final matrices and mass flows of the step are those of the forerun
\* procedure run alone and of the return procedure run at any point of
\* the forerun correction
SameInAnyOrder ==
    /\ LET f == ForerunAlone
       IN /\ matrix_coupl_forerun = f.matrix_coupl
          /\ m_int_forerun = f.m_int
    /\ \A F \in {h.assumed["forerun"], matrix_coupl_forerun} :
          LET r == ReturnFrom(F)
          IN /\ matrix_coupl_return = r.matrix_coupl
             /\ m_int_return = r.m_int

\* solve_network_hydr has just returned
HydReturned == h.hyd_done /\ pc = "therm_start" /\ cntr_therm_1 = 0

\* C14 (as claimed): the two sides of a step are independent: in whatever
\* order they run the step ends with the same matrices and mass flows, and
\* the return side reads nothing the forerun side of the step has written:
\* its first solve uses the negation of the forerun matrix as the step
\* found it.
C14_SidesIndependent ==
    HydReturned =>
        /\ SameInAnyOrder
        /\ h.assumed["return"] = Negate(h.assumed["forerun"])

\* C14 (amended): the return side starts from the negation of the forerun
\* matrix as corrected in the same step, so it reads what the forerun side
\* wrote; the forerun side reads nothing of the return side, and the
\* step's final matrices and mass flows are the same in any order.
C14_ReturnReadsCorrectedForerun ==
    HydReturned =>
        /\ SameInAnyOrder
        /\ h.assumed["return"] = Negate(matrix_coupl_forerun)

\* a solved step whose forerun correction flipped a pipe that carries flow
C14_Witness ==
    /\ HydReturned
    /\ \E y \in Lines : /\ h.flips["forerun"][y] = 1
                         /\ m_int_return[y] > 0
                         /\ Column(h.assumed["return"], y) = Column(h.assumed["forerun"], y)

\* an incidence matrix of the topology: entries +1, 0, -1 and in every
\* column one +1 and one -1, at the two end nodes of the pipe
Incidence(matrix) ==
    \A y \in Lines :
        /\ \A x \in Nodes : matrix[x][y] \in {1, 0, -1}
        /\ Cardinality({x \in Nodes : matrix[x][y] = 1}) = 1
        /\ Cardinality({x \in Nodes : matrix[x][y] = -1}) = 1
        /\ {x \in Nodes : matrix[x][y] # 0} = {line_node_start[y], line_node_end[y]}

\* C15: once make_matrix_coupl has run, in every step and after every
\* direction correction, the forerun matrix and (whenever it exists) the
\* return matrix are incidence matrices of the topology, and flipping any
\* set of columns twice gives the matrix back.
C15_IncidenceMatrix ==
    h.made_matrix > 0 =>
        /\ Incidence(matrix_coupl_forerun)
        /\ matrix_coupl_return # <<>> => Incidence(matrix_coupl_return)
        /\ \A W \in SUBSET Lines :
              FlipColumns(FlipColumns(matrix_coupl_forerun, W), W) = matrix_coupl_forerun

\* the second step has corrected a pipe that the first step had left as
\* the sheet lists it
C15_Witness ==
    /\ h.steps = 2
    /\ h.hyd_done
    /\ \E y \in Lines :
          /\ h.flips["forerun"][y] = 1
          /\ Column(h.assumed["forerun"], y) = Column(make_matrix_coupl, y)
          /\ Column(matrix_coupl_forerun, y) = NegColumn(make_matrix_coupl, y)

\* A is, entry by entry, minus B
EntrywiseMinus(A, B) == \A x \in Nodes : \A y \in Lines : A[x][y] = -B[x][y]

\* C16: in every step, from the end of the forerun loop on, the matrix the
\* return side was given is the entrywise negation of the forerun matrix
\* as it stands: the return matrix before its first solve and the matrix
\* of that first solve are this negation, whatever return flips an earlier
\* step made, and no round of the return loop has changed the forerun
\* matrix.
C16_ReturnStartsNegatedForerunKept ==
    (pc = "hyd_return" \/ h.hyd_done) =>
        /\ EntrywiseMinus(h.assumed["return"], matrix_coupl_forerun)
        /\ h.rounds["return"] = 0 => EntrywiseMinus(matrix_coupl_return, matrix_coupl_forerun)
        /\ h.rounds["return"] = 1 => EntrywiseMinus(h.solved_with["return"], matrix_coupl_forerun)

\* the return loop has flipped a pipe after the forerun loop of the step
\* had flipped one: the return matrix is no longer the negation
C16_Witness ==
    /\ pc = "hyd_return"
    /\ \E y \in Lines : h.flips["return"][y] > 0
    /\ \E y \in Lines : h.flips["forerun"][y] > 0
    /\ ~EntrywiseMinus(matrix_coupl_return, matrix_coupl_forerun)

(***************************************************************************)
(* The unknowns of the hydraulic equation systems.                         *)
(***************************************************************************)
\* the entries of the start vector that a residual function reads
\* (cntr_var after its START VALUES FOR UNKNOWNS loops)
UnknownsRead(mcheck, pref) ==
    Cardinality(Lines)
    + Cardinality({x \in Nodes : pref[x] = NoneSeries})
    + Cardinality(UnknownExt(mcheck))

\* the equations a residual function returns: one continuity equation per
\* node, one pressure equation per pipe
EquationsReturned == Cardinality(Nodes) + Cardinality(Lines)

\* C17: in every hydraulic step both start vectors have (pipes) + (nodes)
\* entries: one per pipe, one per node other than the reference node, one
\* for the reference node's external mass flow; the residual functions
\* read exactly these entries and return as many equations, and the
\* reference node is the one node whose external mass flow is unknown.
C17_UnknownsMatchEquations ==
    h.steps >= 1 =>
        LET fcheck == [x \in Nodes |-> m_ext_forerun_check(V_dot_sim, V_dot_feed, x)]
            rcheck == [x \in Nodes |-> m_ext_return_check(V_dot_sim, V_dot_feed, x)]
            n == Cardinality(Lines) + Cardinality(Nodes)
        IN /\ Len(input_solver_hydr_forerun) = n
           /\ Len(input_solver_hydr_return) = n
           /\ Len(input_solver_hydr_forerun) =
                 Cardinality(Lines) + (Cardinality(Nodes) - 1) + 1
           /\ UnknownsRead(fcheck, p_ref_forerun) = Len(input_solver_hydr_forerun)
           /\ UnknownsRead(rcheck, p_ref_return) = Len(input_solver_hydr_return)
           /\ EquationsReturned = n
           /\ UnknownExt(fcheck) = {p_ref[1]}
           /\ UnknownExt(rcheck) = {p_ref[1]}

\* the start vectors of a second step on a network with a consumer, a
\* distributor and a reference feeder that is measured to feed in
C17_Witness ==
    /\ h.steps = 2
    /\ pc = "hyd_forerun"
    /\ \E x \in Nodes : node_kind[x] = "consumer"
    /\ \E x \in Nodes : node_kind[x] = "distrib"
    /\ Len(input_solver_hydr_forerun) = 5
    /\ input_solver_hydr_forerun[5] > 0
    /\ input_solver_hydr_return[5] < 0

(***************************************************************************)
(* Properties of the main loop.                                            *)
(***************************************************************************)
\* C18: make_matrix_coupl is called once in a run, in the first hydraulic
\* step; every later step begins its forerun solve with the forerun
\* matrix which the step before it left, flips included.
C18_MatrixBuiltOnce ==
    /\ h.made_matrix = (IF h.steps >= 1 THEN 1 ELSE 0)
    /\ h.steps >= 2 => h.assumed["forerun"] = h.prev.matrix_coupl_forerun

\* a second step begins with a column that the first step flipped
C18_Witness ==
    /\ h.steps = 2
    /\ pc = "hyd_forerun"
    /\ h.rounds["forerun"] = 0
    /\ \E y \in Lines : Column(matrix_coupl_forerun, y) = NegColumn(make_matrix_coupl, y)

\* a thermal substep of the current hydraulic step is under way
ThermRunning == pc \in {"therm_start", "therm_forerun", "therm_return_seed", "therm_return"}

\* C19: one soil temperature is appended per hydraulic step, the value of
\* the step's simulated time; in every thermal substep of the step, on
\* both sides, the soil temperature read (temp_soil[-1]) is that value and
\* the mass flows read (index cntr_time_hyd of the *_trans arrays) are the
\* ones the hydraulic solve of the same step has written.
C19_SoilOncePerStep ==
    /\ Len(temp_soil) = h.steps
    /\ \A k \in 1..Len(temp_soil) :
          temp_soil[k] = soil_temp(time_sim_start + (k - 1) * delta_time_hyd)
    /\ ThermRunning =>
          /\ Len(temp_soil) = cntr_time_hyd + 1
          /\ SoilNow = soil_temp(time_sim)
          /\ \A y \in Lines :
                /\ Len(m_int_forerun_trans[y]) = cntr_time_hyd + 1
                /\ Len(m_int_return_trans[y]) = cntr_time_hyd + 1
                /\ PyIndex(m_int_forerun_trans[y], cntr_time_hyd) = m_int_forerun[y]
                /\ PyIndex(m_int_return_trans[y], cntr_time_hyd) = m_int_return[y]
          /\ \A x \in Nodes :
                /\ PyIndex(m_ext_forerun_trans[x], cntr_time_hyd) = m_ext_forerun[x]
                /\ PyIndex(m_ext_return_trans[x], cntr_time_hyd) = m_ext_return[x]

\* the return side of the last substep of the second step is running, the
\* soil is not as warm as in the first step and the flows have changed
C19_Witness ==
    /\ pc = "therm_return"
    /\ cntr_time_hyd = 1
    /\ cntr_therm_1 = cntr_therm_max - 1
    /\ SoilNow # temp_soil[1]
    /\ \E y \in Lines : /\ m_int_forerun[y] > 0
                         /\ m_int_forerun[y] # m_int_forerun_trans[y][1]

\* int(delta_time_hyd*60/delta_time_therm)
SubstepsPerStep == (delta_time_hyd * 60) \div delta_time_therm

\* C20: an iteration of the main loop prepares the step, runs the forerun
\* solve-and-correct, then the return one, then SubstepsPerStep thermal
\* substeps, and only then counts the step and advances the time by
\* delta_time_hyd; at every loop head time_sim = time_sim_start +
\* cntr_time_hyd * delta_time_hyd, and a run that ends has made one
\* iteration for every time point from time_sim_start to time_sim_end.
C20_LoopOrder ==
    /\ time_sim = time_sim_start + cntr_time_hyd * delta_time_hyd
    /\ pc \in {"loop_head", "done"} =>
          /\ h.steps = cntr_time_hyd
          /\ h.substeps = cntr_time_hyd * SubstepsPerStep
    /\ pc = "hyd_forerun" =>
          /\ h.steps = cntr_time_hyd + 1
          /\ h.rounds["return"] = 0
          /\ ~h.hyd_done
          /\ h.substeps = cntr_time_hyd * SubstepsPerStep
    /\ pc = "hyd_return" =>
          /\ h.steps = cntr_time_hyd + 1
          /\ h.rounds["forerun"] >= 1
          /\ ~h.hyd_done
          /\ h.substeps = cntr_time_hyd * SubstepsPerStep
    /\ ThermRunning =>
          /\ h.steps = cntr_time_hyd + 1
          /\ h.hyd_done
          /\ h.rounds["forerun"] >= 1 /\ h.rounds["return"] >= 1
          /\ cntr_therm_1 < SubstepsPerStep
          /\ h.substeps = cntr_time_hyd * SubstepsPerStep + cntr_therm_1
    /\ pc = "loop_head" => time_sim <= time_sim_end + delta_time_hyd
    /\ pc = "done" =>
          cntr_time_hyd = (time_sim_end - time_sim_start) \div delta_time_hyd + 1

\* a run has ended after an iteration for time_sim_end
C20_Witness ==
    /\ pc = "done"
    /\ time_sim = time_sim_end + delta_time_hyd
    /\ h.steps = 2
    /\ h.substeps = 2 * SubstepsPerStep
    /\ \E y \in Lines : m_int_forerun[y] > 0

(***************************************************************************)
(* Order and arithmetic of the propagation within a substep.               *)
(***************************************************************************)
line_calc(d) == IF d = "forerun" THEN line_calc_forerun ELSE line_calc_return
cntr_time_therm(d) == IF d = "forerun" THEN cntr_time_therm_forerun ELSE cntr_time_therm_return

\* the seeding or the propagation loop of side d is taking a step
Working(d) ==
    /\ pc' # "aborted"
    /\ IF d = "forerun" THEN pc \in {"therm_start", "therm_forerun"}
       ELSE pc \in {"therm_return_seed", "therm_return"}
\* the bookkeeping arrays of the forerun side are reset by the step itself
Fresh(d) == d = "forerun" /\ pc = "therm_start"

\* the step advances pipe y / assigns node x on side d
Advanced(d, y) ==
    Working(d) /\ line_calc(d)'[y] = 1 /\ (Fresh(d) \/ line_calc(d)[y] = 0)
Assigned(d, x) ==
    Working(d) /\ h'.node_visits[d][x] >= 1 /\ (Fresh(d) \/ h.node_visits[d][x] = 0)

\* the first segment of pipe y after an update with inlet value t_in
FirstSegment(d, y, t_in, area) ==
    line_step(line_t(d)[y], PyIndex(m_int_trans(d)[y], cntr_time_hyd), t_in, area, y)[1]

\* C21: in every step of a thermal substep and on either side, a node is
\* assigned its temperature only when every pipe ending at it has already
\* been advanced in this substep, a pipe is advanced only when the node it
\* starts at has its temperature of this substep, and the first segment
\* of the pipe is updated with that temperature as inlet value.
C21_PropagationOrder ==
    [][ \A d \in Dirs :
          /\ \A x \in Nodes :
                Assigned(d, x) =>
                    \A y \in LinesIn(matrix_coupl(d), x) : ~Fresh(d) /\ line_calc(d)[y] = 1
          /\ \A y \in Lines :
                Advanced(d, y) =>
                    \E x \in Nodes :
                        /\ matrix_coupl(d)[x][y] = 1
                        /\ h'.node_visits[d][x] >= 1
                        /\ LET t_in == PyIndex(node_t_trans(d)'[x], cntr_time_therm(d))
                           IN line_t(d)'[y][1] \in
                                {FirstSegment(d, y, t_in, AreaPiDiaDx(y)),
                                 FirstSegment(d, y, t_in, AreaDx(y))} ]_vars

\* the forerun side of a later substep is complete after two passes: a
\* node between two pipes was assigned a temperature above the soil's and
\* passed it on
C21_Witness ==
    /\ pc = "therm_return_seed"
    /\ cntr_time_therm_forerun >= 2
    /\ h.passes["forerun"] = 2
    /\ \E x \in Nodes :
          /\ x \notin h.sources["forerun"]
          /\ LinesIn(matrix_coupl_forerun, x) # {}
          /\ LinesOut(matrix_coupl_forerun, x) # {}
          /\ RLess(SoilNow, Last(node_t_forerun_trans[x]))
          /\ \E y \in LinesOut(matrix_coupl_forerun, x) : Last(m_int_forerun_trans[y]) > 0

\* C22: a return-side source with zero external return mass flow is given,
\* in the first hydraulic step, its forerun temperature of the same
\* substep, and in every later step that forerun temperature minus the
\* difference (forerun - return) it had in the substep before; the result
\* is a number whenever these temperatures are (nothing is divided).
C22_SourceAtRestCarriesDifference ==
    \A x \in Nodes :
        ( /\ pc = "therm_return"
          /\ x \in h.sources["return"]
          /\ m_ext_return[x] = 0 )
        => LET tf == node_t_forerun_trans[x]
               tr == node_t_return_trans[x]
               n == Len(tr)
           IN /\ Len(tf) = n
              /\ h.steps = 1 => tr[n] = tf[n]
              /\ h.steps > 1 => /\ n > 1
                                /\ tr[n] = RSub(tf[n], RSub(tf[n - 1], tr[n - 1]))
              /\ (~IsNaN(tf[n]) /\ (h.steps > 1 => ~IsNaN(tf[n - 1]) /\ ~IsNaN(tr[n - 1])))
                    => ~IsNaN(tr[n])

\* a consumer that drew heat in the first step is at rest in the second
\* and carries a non-zero difference over
C22_Witness ==
    /\ pc = "therm_return"
    /\ h.steps = 2
    /\ \E x \in Nodes :
          /\ x \in h.sources["return"]
          /\ m_ext_return[x] = 0
          /\ node_kind[x] = "consumer"
          /\ LET tf == node_t_forerun_trans[x]
                 tr == node_t_return_trans[x]
                 n == Len(tr)
             IN /\ tf[n - 1] # tr[n - 1]
                /\ tr[n] # tf[n]
                /\ ~IsNaN(tr[n])

\* (T_feed * m + sum(m_i * T_out_i)) / (m + sum(m_i)) at a forerun node
FeederMix(x, m) ==
    RDiv(RAdd(RMul(temp_flow_feed[x], R(m)), InflowHeat("forerun", x)),
         R(m + InflowMass("forerun", x)))

\* C23: every feeder with positive external forerun mass flow and an
\* incoming forerun pipe, reference feeder or not, is assigned the mix of
\* its supplied temperature and its inflows, weighted by its external mass
\* flow of the step (as solved or as measured) and the pipe flows, and
\* the substep does not fail on it.
C23_FeederWithInflowMixes ==
    \A x \in Nodes :
        ( /\ h.hyd_done
          /\ feed_in(x) # None
          /\ m_ext_forerun[x] > 0
          /\ LinesIn(matrix_coupl_forerun, x) # {} )
        => /\ err # "IndexError: invalid index to scalar variable"
           /\ (InSubstep("forerun") /\ node_calc_forerun[x] = 1) =>
                 Last(node_t_forerun_trans[x]) \in
                    {FeederMix(x, m_ext_forerun[x]), FeederMix(x, MassFlow(V_dot_feed[x]))}

\* C24: every update of a pipe, on either side, in the seeding phase or
\* in the propagation loop, is the same function of the pre-update values:
\* all segments at once, T + dt * (m*c*(T_inflow - T) - htc*(T - T_soil)*A)
\* / (thermal mass), with A the surface area pi*dia*dx of a segment.
C24_OneUpdateFunction ==
    [][ \A d \in Dirs : \A y \in Lines :
          Advanced(d, y) =>
              \E x \in Nodes :
                  /\ matrix_coupl(d)[x][y] = 1
                  /\ line_t(d)'[y] =
                        line_step(line_t(d)[y], PyIndex(m_int_trans(d)[y], cntr_time_hyd),
                                  PyIndex(node_t_trans(d)'[x], cntr_time_therm(d)),
                                  AreaPiDiaDx(y), y) ]_vars

\* C25: a consumer with positive external return mass flow m and incoming
\* return pipes is assigned the mix of its inflows and of its own return
\* stream, the latter at the energy-balance temperature clipped below at
\* the soil temperature; hence its return temperature is not below the
\* soil temperature when no incoming pipe's outlet is.
C25_ClippedStreamEntersMixing ==
    \A x \in Nodes :
        ( /\ InSubstep("return")
          /\ node_calc_return[x] = 1
          /\ node_kind[x] = "consumer"
          /\ m_ext_return[x] > 0
          /\ LinesIn(matrix_coupl_return, x) # {} )
        => LET stream == ClipToSoil(EnergyBalance(x))
               m == m_ext_return[x]
               t == Last(node_t_return_trans[x])
           IN /\ t = RDiv(RAdd(RMul(stream, R(m)), InflowHeat("return", x)),
                          R(m + InflowMass("return", x)))
              /\ (\A y \in LinesIn(matrix_coupl_return, x) :
                        ~RLess(Last(line_t_return[y]), SoilNow))
                    => ~RLess(t, SoilNow)

(***************************************************************************)
(* Discretisation of the pipes.                                            *)
(***************************************************************************)
\* no thermal substep has begun yet: no nodal temperature is recorded
BeforeThermal == \A x \in Nodes : node_t_forerun_trans[x] = <<>>

\* C26: every pipe has n = ceil(l * n_m) >= 1 segments of length
\* dx = l / n, so that n * dx = l and dx <= 1 / n_m; it holds n forerun
\* and n return segment temperatures at every point of the run, and until
\* the first thermal update they all are the soil temperature of the
\* simulation start.
C26_Segments ==
    \A y \in Lines :
        LET n == line_n(y)
            prod == RMul(line_l[y], R(n_m))
        IN /\ n >= 1
           /\ RLess(R(n - 1), prod) /\ ~RLess(R(n), prod)
           /\ RMul(R(n), line_dx(y)) = line_l[y]
           /\ ~RLess(RDiv(R(1), R(n_m)), line_dx(y))
           /\ Len(line_t_forerun[y]) = n
           /\ Len(line_t_return[y]) = n
           /\ BeforeThermal =>
                 \A i \in 1..n : /\ line_t_forerun[y][i] = soil_temp(time_sim_start)
                                  /\ line_t_return[y][i] = soil_temp(time_sim_start)

\* a run has ended with a pipe of 1/2 m in one segment and a pipe of 2 m
\* in two, whose temperatures have left the start value
C26_Witness ==
    /\ pc = "done"
    /\ \E y \in Lines : /\ line_l[y] = RNorm(1, 2)
                         /\ Len(line_t_forerun[y]) = 1
                         /\ line_dx(y) = RNorm(1, 2)
    /\ \E y \in Lines : /\ line_l[y] = R(2)
                         /\ Len(line_t_return[y]) = 2
                         /\ line_dx(y) = R(1)
                         /\ line_t_forerun[y][1] # soil_temp(time_sim_start)
                         /\ line_t_return[y][2] # soil_temp(time_sim_start)

(***************************************************************************)
(* Selection of the forerun sources.                                       *)
(***************************************************************************)
\* C27: in every thermal substep every node taken as a forerun source
\* (external forerun mass flow >= 0, no incoming pipe under the corrected
\* forerun matrix) is a feeder with a supplied forerun temperature: no
\* consumer and no distributor is taken as a source.
C27_ForerunSourcesAreFeeders ==
    \A x \in h.sources["forerun"] :
        /\ feed_in(x) # None
        /\ node_kind[x] \notin {"consumer", "distrib"}
        /\ temp_flow_feed[x] # NoneSeries

(***************************************************************************)
(* What a hydraulic solve writes.                                          *)
(***************************************************************************)
p_node(d) == IF d = "forerun" THEN p_forerun ELSE p_return
pc_solve(d) == IF d = "forerun" THEN "hyd_forerun" ELSE "hyd_return"
Other(d) == IF d = "forerun" THEN "return" ELSE "forerun"

\* C28: a solve of side d leaves the external mass flow of every node
\* other than the reference node, the pressure of the reference node, and
\* the pipe flows, external flows and pressures of the other side as they
\* were: it writes the side's pipe flows, the pressures of the other
\* nodes and the reference node's external mass flow only.
C28_SolveFrame ==
    [][ \A d \in Dirs :
          pc = pc_solve(d) =>
              /\ \A x \in Nodes \ {p_ref[1]} : m_ext(d)'[x] = m_ext(d)[x]
              /\ p_node(d)'[p_ref[1]] = p_node(d)[p_ref[1]]
              /\ m_int(Other(d))' = m_int(Other(d))
              /\ m_ext(Other(d))' = m_ext(Other(d))
              /\ p_node(Other(d))' = p_node(Other(d)) ]_vars

\* a forerun solve has written pipe flows, a pressure drop and the
\* reference node's external flow, next to a consumer's given flow, and
\* the return side still is as the step was prepared
C28_Witness ==
    /\ pc = "hyd_return"
    /\ h.rounds["return"] = 0
    /\ m_ext_forerun[p_ref[1]] > 0
    /\ m_ext_return[p_ref[1]] = None
    /\ \E x \in Nodes : node_kind[x] = "consumer" /\ m_ext_forerun[x] < 0 /\ m_ext_return[x] > 0
    /\ \E x \in Nodes : p_forerun[x] # p_forerun[p_ref[1]] /\ p_return[x] = NoneSeries
    /\ p_forerun[p_ref[1]] = PressFlowFeedSeries(p_ref[1], cntr_time_hyd)

\* C29: when solve_network_hydr has returned, on either side the external
\* mass flows of all nodes sum to zero: the reference node's solved
\* external flow is minus the sum of the other nodes' given external
\* flows, whatever flow was measured at the reference feeder, and its
\* return external flow is the negation of its forerun external flow.
C29_ExternalFlowsBalance ==
    h.hyd_done =>
        LET ref == p_ref[1]
            fcheck == [x \in Nodes |-> m_ext_forerun_check(V_dot_sim, V_dot_feed, x)]
            rcheck == [x \in Nodes |-> m_ext_return_check(V_dot_sim, V_dot_feed, x)]
        IN /\ SumOver(Nodes, m_ext_forerun) = 0
           /\ SumOver(Nodes, m_ext_return) = 0
           /\ m_ext_forerun[ref] = -SumOver(Nodes \ {ref}, fcheck)
           /\ m_ext_return[ref] = -SumOver(Nodes \ {ref}, rcheck)
           /\ m_ext_return[ref] = -m_ext_forerun[ref]

\* the reference feeder is measured at rest but has to supply what a
\* consumer draws beyond the feed of the other feeder
C29_Witness ==
    /\ h.hyd_done
    /\ MassFlow(V_dot_feed[p_ref[1]]) = 0
    /\ m_ext_forerun[p_ref[1]] > 0
    /\ m_ext_return[p_ref[1]] < 0
    /\ \E x \in Nodes \ {p_ref[1]} : feed_in(x) # None /\ m_ext_forerun[x] > 0
    /\ \E x \in Nodes : node_kind[x] = "consumer" /\ m_ext_forerun[x] < -1

(***************************************************************************)
(* Counters and histories.                                                 *)
(***************************************************************************)
\* substeps begun so far, the one under way included
SubstepsStarted ==
    h.substeps + (IF pc \in {"therm_forerun", "therm_return_seed", "therm_return"} THEN 1 ELSE 0)
\* calls of solve_network_hydr that have returned
SolvesCompleted == IF h.hyd_done THEN h.steps ELSE IF h.steps > 0 THEN h.steps - 1 ELSE 0

\* C30: while the run has not failed, the two substep counters advance in
\* lockstep: both equal the number of completed substeps whenever a
\* substep starts and while its forerun side runs, the forerun counter is
\* one ahead during the return phase, both are k * SubstepsPerStep after
\* k completed hydraulic steps; every node's forerun and return
\* temperature history has one entry per substep begun, and every pipe's
\* (and node's) mass-flow history one entry per completed hydraulic solve.
C30_CountersInLockstep ==
    pc # "aborted" =>
        /\ pc \in {"therm_start", "therm_forerun"} =>
              /\ cntr_time_therm_forerun = h.substeps
              /\ cntr_time_therm_return = h.substeps
        /\ pc \in {"therm_return_seed", "therm_return"} =>
              /\ cntr_time_therm_forerun = cntr_time_therm_return + 1
              /\ cntr_time_therm_return = h.substeps
        /\ pc \in {"loop_head", "done"} =>
              /\ cntr_time_therm_forerun = cntr_time_hyd * SubstepsPerStep
              /\ cntr_time_therm_return = cntr_time_hyd * SubstepsPerStep
        /\ \A x \in Nodes :
              /\ Len(node_t_forerun_trans[x]) = SubstepsStarted
              /\ Len(node_t_return_trans[x]) = SubstepsStarted
              /\ Len(m_ext_forerun_trans[x]) = SolvesCompleted
              /\ Len(m_ext_return_trans[x]) = SolvesCompleted
        /\ \A y \in Lines :
              /\ Len(m_int_forerun_trans[y]) = SolvesCompleted
              /\ Len(m_int_return_trans[y]) = SolvesCompleted

\* the return side of the last substep of the second hydraulic step runs
C30_Witness ==
    /\ pc = "therm_return"
    /\ h.steps = 2
    /\ cntr_time_therm_forerun = 2 * SubstepsPerStep
    /\ cntr_time_therm_return = 2 * SubstepsPerStep - 1
    /\ \A x \in Nodes : Len(node_t_return_trans[x]) = 2 * SubstepsPerStep
    /\ \A y \in Lines : Len(m_int_forerun_trans[y]) = 2

====
